---------------------------- MODULE Spec2Model ----------------------------
(***************************************************************************)
(* Model of disk_usage.py: main(hostname, path, mount, ha_rest_api_url,    *)
(* interval), the reporter loop that samples shutil.disk_usage, computes   *)
(* the percentages, POSTs them to Home Assistant and sleeps.               *)
(*                                                                         *)
(* Python strings are sequences of one-character strings, so that          *)
(* os.path.join can look at the first and last character.  An optional     *)
(* value (os.getenv, an argparse default that may be None) is a record     *)
(* [set, val].  A Python float is a record [m, e] standing for m * 2^e     *)
(* with a mantissa of MantBits bits, rounded to nearest, ties to even.     *)
(***************************************************************************)
EXTENDS Integers, Sequences, FiniteSets, TLC

VARIABLES
    key,              \* os.getenv("HA_API_KEY")
    ha_rest_api_url,  \* argument of main
    hostname,         \* argument of main
    mount,            \* argument of main
    interval,         \* argument of main (seconds)
    pc,               \* position of the single thread in main
    usage,            \* this iteration's shutil.disk_usage(path) result
    json,             \* this iteration's request body
    url,              \* this iteration's POST target
    outcome,          \* what requests.post / response.json() did this iteration
    request,          \* the last request handed to requests.post
    log,              \* the log records of this iteration
    trace,            \* the events from the previous POST attempt on
    exit              \* how the process ended

config == <<key, ha_rest_api_url, hostname, mount, interval>>
vars == <<key, ha_rest_api_url, hostname, mount, interval, pc, usage, json,
          url, outcome, request, log, trace, exit>>

---------------------------------------------------------------------------
\* Bounds of the model.

\* Disk sizes 0..MaxBytes are sampled exhaustively.
MaxBytes == 6
\* Intervals -1..MaxInterval are tried.
MaxInterval == 2
\* Mantissa width of the modelled float (binary64 has 53).
MantBits == 8

---------------------------------------------------------------------------
\* Strings.

Chr_slash == "/"
Str_states == <<"s", "t", "a", "t", "e", "s">>
Str_sensor_dot == <<"s", "e", "n", "s", "o", "r", ".">>
Str_us == <<"_">>
Str_us_disk_usage == <<"_", "d", "i", "s", "k", "_", "u", "s", "a", "g", "e">>
Str_sp == <<" ">>
Str_sp_Disk_Usage == <<" ", "D", "i", "s", "k", " ", "U", "s", "a", "g", "e">>
Str_Bearer_sp == <<"B", "e", "a", "r", "e", "r", " ">>
Str_pct == <<"%">>

Str_nas1 == <<"n", "a", "s", "1">>
Str_data == <<"d", "a", "t", "a">>
Str_a_slash_b == <<"a", "/", "b">>
Str_slash_mnt == <<"/", "m", "n", "t">>
Str_base == <<"h", ":", "/", "/", "h", "a", "/", "a", "p", "i">>
Str_base_slash == <<"h", ":", "/", "/", "h", "a", "/", "a", "p", "i", "/">>
Str_token == <<"t", "0", "k">>

None == [set |-> FALSE, val |-> <<>>]
Some(s) == [set |-> TRUE, val |-> s]

\* Mutant of Truthy: tests `is not None`, so the empty string passes.
Truthy_isNotNone(o) == o.set

\* Python truthiness of an optional string: None and "" are falsy.
Truthy(o) == o.set /\ Len(o.val) > 0

\* str.startswith / str.endswith for a one-character argument.
StartsWith(s, c) == Len(s) > 0 /\ s[1] = c
EndsWith(s, c) == Len(s) > 0 /\ s[Len(s)] = c

\* posixpath.join(a, *p): an absolute component replaces what came before;
\* a separator is inserted only if the path so far is non-empty and does
\* not already end with one.
RECURSIVE PathJoin(_, _)
PathJoin(a, p) ==
    IF p = <<>> THEN a
    ELSE LET b == Head(p)
             path == IF StartsWith(b, Chr_slash) THEN b
                     ELSE IF a = <<>> \/ EndsWith(a, Chr_slash) THEN a \o b
                     ELSE a \o <<Chr_slash>> \o b
         IN PathJoin(path, Tail(p))

\* f"sensor.{hostname}_{mount}_disk_usage"
EntityId(h, m) == Str_sensor_dot \o h \o Str_us \o m \o Str_us_disk_usage

\* f"{hostname} {mount} Disk Usage"
FriendlyName(h, m) == h \o Str_sp \o m \o Str_sp_Disk_Usage

\* Mutant of PostUrl: the URL built as f"{base}/states/{entity_id}".
PostUrl_fstring(base, h, m) ==
    base \o <<Chr_slash>> \o Str_states \o <<Chr_slash>> \o EntityId(h, m)

\* os.path.join(ha_rest_api_url, "states", f"sensor.{hostname}_{mount}_disk_usage")
PostUrl(base, h, m) == PathJoin(base, <<Str_states, EntityId(h, m)>>)

\* {"Authorization": f"Bearer {key}"}
Headers(k) == [Authorization |-> Str_Bearer_sp \o k]

---------------------------------------------------------------------------
\* Floats.

RECURSIVE Pow2(_)
Pow2(n) == IF n <= 0 THEN 1 ELSE 2 * Pow2(n - 1)

FZero == [m |-> 0, e |-> 0]

\* The exponent e with 2^(MantBits-1) <= n / (d * 2^e) < 2^MantBits, n, d > 0.
RECURSIVE ExpUp(_, _, _)
ExpUp(n, d, e) == IF n >= d * Pow2(MantBits + e) THEN ExpUp(n, d, e + 1) ELSE e
RECURSIVE ExpDown(_, _, _)
ExpDown(n, d, e) == IF n * Pow2(e) < d * Pow2(MantBits - 1) THEN ExpDown(n, d, e + 1) ELSE e
ExpOf(n, d) ==
    IF n >= d * Pow2(MantBits - 1) THEN ExpUp(n, d, 0) ELSE 0 - ExpDown(n, d, 1)

\* The float nearest to the rational n / d (n >= 0, d > 0), ties to even.
RoundRat(n, d) ==
    IF n = 0 THEN FZero
    ELSE LET e == ExpOf(n, d)
             num == IF e >= 0 THEN n ELSE n * Pow2(0 - e)
             den == IF e >= 0 THEN d * Pow2(e) ELSE d
             q == num \div den
             r == num % den
             up == 2 * r > den \/ (2 * r = den /\ q % 2 = 1)
             m == IF up THEN q + 1 ELSE q
         IN IF m = Pow2(MantBits) THEN [m |-> Pow2(MantBits - 1), e |-> e + 1]
            ELSE [m |-> m, e |-> e]

\* int / int: Python's true division, correctly rounded.  Dividing by zero
\* raises ZeroDivisionError, which the caller tests for before dividing.
TrueDiv(n, d) == RoundRat(n, d)

\* float + float, both >= 0.
FAdd(a, b) ==
    LET e == IF a.e < b.e THEN a.e ELSE b.e
        s == a.m * Pow2(a.e - e) + b.m * Pow2(b.e - e)
    IN IF e >= 0 THEN RoundRat(s * Pow2(e), 1) ELSE RoundRat(s, Pow2(0 - e))

\* a <= b and a = b on floats (the representation is canonical).
FLe(a, b) ==
    LET e == IF a.e < b.e THEN a.e ELSE b.e
    IN a.m * Pow2(a.e - e) <= b.m * Pow2(b.e - e)

---------------------------------------------------------------------------
\* Inputs.

KeyValues == {None, Some(<<>>), Some(Str_token)}
UrlValues == {None, Some(<<>>), Some(Str_base), Some(Str_base_slash)}
HostValues == {Str_nas1, Str_a_slash_b}
MountValues == {Str_data, Str_slash_mnt}
IntervalValues == (0 - 1) .. MaxInterval

\* What shutil.disk_usage can return: total = f_blocks * f_frsize,
\* used = (f_blocks - f_bfree) * f_frsize, free = f_bavail * f_frsize with
\* f_bavail <= f_bfree, so used + free <= total; a pseudo file system has
\* total = 0.
Sample(t, u, f) == [total |-> t, used |-> u, free |-> f]
UsageValues ==
    {Sample(t, u, f) : t \in 0 .. MaxBytes, u \in 0 .. MaxBytes, f \in 0 .. MaxBytes}
    \cup {Sample(1000, 400, 600), Sample(1000, 400, 550)}
UsageSamples == {s \in UsageValues : s.used + s.free <= s.total}

\* shutil.disk_usage raises OSError for a missing or unreadable path.
DiskErrors == {"FileNotFoundError", "PermissionError"}

\* requests.post raises, or returns a response whose body response.json()
\* parses to a truthy value, parses to a falsy value ({}, [], null), or
\* does not parse (JSONDecodeError).
PostRaises == {"ConnectionError", "Timeout"}
ResponseBodies == {"json_truthy", "json_falsy", "not_json"}

---------------------------------------------------------------------------
\* State.

NoUsage == Sample(0 - 1, 0 - 1, 0 - 1)
NoOutcome == [kind |-> "none", detail |-> ""]
Running == [exc |-> "", msg |-> ""]

Debug(m) == [level |-> "DEBUG", msg |-> m, arg |-> ""]
Error(m, a) == [level |-> "ERROR", msg |-> m, arg |-> a]

QueryEvent(ok) == [ev |-> "query", ok |-> ok, secs |-> 0]
PostEvent(ok) == [ev |-> "post", ok |-> ok, secs |-> 0]
SleepEvent(secs) == [ev |-> "sleep", ok |-> TRUE, secs |-> secs]

Init ==
    /\ key \in KeyValues
    /\ ha_rest_api_url \in UrlValues
    /\ hostname \in HostValues
    /\ mount \in MountValues
    /\ interval \in IntervalValues
    /\ pc = "start"
    /\ usage = NoUsage
    /\ json = <<>>
    /\ url = <<>>
    /\ outcome = NoOutcome
    /\ request = <<>>
    /\ log = <<>>
    /\ trace = <<>>
    /\ exit = Running

\* An uncaught exception: the interpreter prints it and the process ends.
Raise(exc, msg) ==
    /\ pc' = "terminated"
    /\ exit' = [exc |-> exc, msg |-> msg]

\* Mutant of StartupCheck: the interval is tested with >= 0.
StartupCheck_allowsZero ==
    IF ~Truthy(key) THEN "Need to specify HA_API_KEY in environment!"
    ELSE IF ~Truthy(ha_rest_api_url) THEN "Please specify HA_REST_API_URL"
    ELSE IF ~(interval >= 0) THEN "Stubbornly refusing to run tight loop"
    ELSE ""

\* Lines 26-29: the three assertions, in order.
StartupCheck ==
    IF ~Truthy(key) THEN "Need to specify HA_API_KEY in environment!"
    ELSE IF ~Truthy(ha_rest_api_url) THEN "Please specify HA_REST_API_URL"
    ELSE IF ~(interval > 0) THEN "Stubbornly refusing to run tight loop"
    ELSE ""

Startup ==
    /\ pc = "start"
    /\ IF StartupCheck # ""
       THEN Raise("AssertionError", StartupCheck)
       ELSE pc' = "query" /\ exit' = exit
    /\ UNCHANGED <<config, usage, json, url, outcome, request, log, trace>>

\* Mutant of DiskQueryFails: the query sits inside the try, so its failure
\* is logged and the loop goes on to the sleep.
DiskQueryFails_caught(err) ==
    /\ pc' = "sleep"
    /\ exit' = exit
    /\ log' = <<Error("Got exception", err)>>
    /\ trace' = Append(trace, QueryEvent(FALSE))
    /\ UNCHANGED <<usage, json, url, outcome, request>>

\* Line 32: usage = shutil.disk_usage(path), outside any try.  The previous
\* iteration's json, url and response are dead here (lines 37, 50 and 56
\* overwrite them before any read), and json, url, outcome, request and log
\* describe the iteration that starts.
DiskQueryFails(err) ==
    /\ Raise(err, "disk_usage")
    /\ trace' = Append(trace, QueryEvent(FALSE))
    /\ UNCHANGED <<usage, json, url, outcome, request, log>>

DiskQueryReturns(s) ==
    /\ usage' = s
    /\ pc' = "compute"
    /\ json' = <<>>
    /\ url' = <<>>
    /\ outcome' = NoOutcome
    /\ request' = <<>>
    /\ log' = <<>>
    /\ trace' = Append(trace, QueryEvent(TRUE))
    /\ exit' = exit

DiskQuery ==
    /\ pc = "query"
    /\ \/ \E err \in DiskErrors : DiskQueryFails(err)
       \/ \E s \in UsageSamples : DiskQueryReturns(s)
    /\ UNCHANGED config

\* Mutant of UsedPercentage: floor division (//) instead of true division.
UsedPercentage_floordiv(u) == RoundRat((u.used * 100) \div u.total, 1)

\* Lines 33-34.
UsedPercentage(u) == TrueDiv(u.used * 100, u.total)
FreePercentage(u) == TrueDiv(u.free * 100, u.total)

\* Lines 37-48.
Payload(u, h, m) ==
    [state |-> UsedPercentage(u),
     attributes |->
        [friendly_name |-> FriendlyName(h, m),
         unit_of_measurement |-> Str_pct,
         used_percentage |-> UsedPercentage(u),
         free_percentage |-> FreePercentage(u),
         total_bytes |-> u.total,
         used_bytes |-> u.used,
         free_bytes |-> u.free]]

\* Mutant of ZeroDivision: the division is guarded and yields 0.
ZeroDivision_guarded(u) == FALSE

\* Lines 33-34: int / int raises ZeroDivisionError when the divisor is 0.
ZeroDivision(u) == u.total = 0

\* Lines 33-54: the percentages (ZeroDivisionError when total is 0, outside
\* the try), the body, the URL and the debug record.
Compute ==
    /\ pc = "compute"
    /\ IF ZeroDivision(usage)
       THEN /\ Raise("ZeroDivisionError", "division by zero")
            /\ UNCHANGED <<json, url, log>>
       ELSE /\ json' = <<Payload(usage, hostname, mount)>>
            /\ url' = PostUrl(ha_rest_api_url.val, hostname, mount)
            /\ log' = Append(log, Debug("Posting to"))
            /\ pc' = "post"
            /\ exit' = exit
    /\ UNCHANGED <<config, usage, outcome, request, trace>>

\* Mutant of PostRaisesLog: the exception is swallowed without a record.
PostRaisesLog_silent(exc) == <<>>

\* Lines 55-63: what the try block logs when requests.post raises exc.
PostRaisesLog(exc) == <<Error("Got exception", exc)>>

\* Mutant of ResponseLog: a body that does not parse is ignored.
ResponseLog_ignore(body) ==
    <<Debug("Got response")>> \o
    (IF body = "json_truthy" THEN <<Debug("Response JSON")>> ELSE <<>>)

\* Lines 59-63: what the try block logs once requests.post has returned.
ResponseLog(body) ==
    <<Debug("Got response")>> \o
    (IF body = "not_json" THEN <<Error("Got exception", "JSONDecodeError")>>
     ELSE IF body = "json_truthy" THEN <<Debug("Response JSON")>>
     ELSE <<>>)

HasError(l) == \E i \in 1 .. Len(l) : l[i].level = "ERROR"

\* Mutant of AfterReport: the report is attempted again at once.
AfterReport_retry == "post"

\* Mutant of AfterReport: main returns after the report.
AfterReport_return == "terminated"

\* Where the thread goes after the try statement: except Exception catches
\* everything the report step raises.
AfterReport == "sleep"

\* Lines 55-63: one requests.post call and the reading of its response.
Post ==
    /\ pc = "post"
    /\ request' = <<[url |-> url, headers |-> Headers(key.val), json |-> json[1]]>>
    /\ \/ \E exc \in PostRaises :
            /\ outcome' = [kind |-> "raised", detail |-> exc]
            /\ log' = log \o PostRaisesLog(exc)
       \/ \E body \in ResponseBodies :
            /\ outcome' = [kind |-> "response", detail |-> body]
            /\ log' = log \o ResponseLog(body)
    /\ trace' = Append(trace, PostEvent(~HasError(log')))
    /\ pc' = AfterReport
    /\ UNCHANGED <<config, usage, json, url, exit>>

\* Lines 64-65.  The events older than the POST attempt just made are
\* dropped from trace here.
SleepSecs == interval

Sleep ==
    /\ pc = "sleep"
    /\ log' = Append(log, Debug("Sleeping"))
    /\ trace' = <<trace[Len(trace)], SleepEvent(SleepSecs)>>
    /\ pc' = "query"
    /\ UNCHANGED <<config, usage, json, url, outcome, request, exit>>

\* A signal (SIGINT raises KeyboardInterrupt, which except Exception does
\* not catch; SIGTERM ends the process) at any point of the run.
Kill ==
    /\ pc # "terminated"
    /\ Raise("KeyboardInterrupt", "signal")
    /\ UNCHANGED <<config, usage, json, url, outcome, request, log, trace>>

\* The steps of the program itself.
Step == Startup \/ DiskQuery \/ Compute \/ Post \/ Sleep

Next == Step \/ Kill

Spec == Init /\ [][Next]_vars

\* The thread is never descheduled for ever, and every blocking call
\* (disk_usage, requests.post, time.sleep) returns or raises.
FairSpec == Spec /\ WF_vars(Step)

---------------------------------------------------------------------------
\* Properties.

Last(s) == s[Len(s)]
Killed(e) == e.exc = "KeyboardInterrupt"
ReportExceptions == PostRaises \cup {"JSONDecodeError"}
ReportFailed(o) == o.kind = "raised" \/ (o.kind = "response" /\ o.detail = "not_json")
ReportException(o) == IF o.kind = "raised" THEN o.detail ELSE "JSONDecodeError"
Missing(o) == ~o.set \/ o.val = <<>>
StartupPassed == ~Missing(key) /\ ~Missing(ha_rest_api_url) /\ interval > 0

\* C1: no exception of the report step leaves the loop body: whatever the
\* POST did, the step after it is the sleep (with an error record logged
\* when the report failed), the sleep lasts exactly the configured interval
\* and the step after the sleep is a new disk query; the process never ends
\* with an exception of the report step.
C1_ReportFailureStaysInLoop ==
    [][/\ (pc = "post" /\ ~Killed(exit')) =>
            /\ pc' = "sleep"
            /\ exit' = Running
            /\ outcome'.kind \in {"raised", "response"}
            /\ ReportFailed(outcome') =>
                  Last(log') = Error("Got exception", ReportException(outcome'))
       /\ (pc = "sleep" /\ ~Killed(exit')) =>
            /\ pc' = "query"
            /\ trace' = <<Last(trace), SleepEvent(interval)>>
       /\ (pc = "query" /\ trace # <<>> /\ ~Killed(exit')) =>
            /\ Len(trace') = 3
            /\ trace'[3].ev = "query"
       /\ exit'.exc \notin ReportExceptions]_vars

\* C1 witness: a failed POST was followed by the sleep and a new disk query.
C1_Witness ==
    /\ pc = "compute"
    /\ trace = <<PostEvent(FALSE), SleepEvent(interval), QueryEvent(TRUE)>>

\* C2: with interval <= 0 the run never enters the loop: it is at its start
\* or has ended with the assertion error (or a signal), and no disk query,
\* POST or sleep has happened.
C2_NonPositiveIntervalRejected ==
    interval <= 0 =>
        /\ pc \in {"start", "terminated"}
        /\ pc = "terminated" => exit.exc \in {"AssertionError", "KeyboardInterrupt"}
        /\ trace = <<>>
        /\ request = <<>>
        /\ usage = NoUsage

\* C2 witness: key and URL given, interval <= 0, the run ended on line 29.
C2_Witness ==
    /\ interval <= 0
    /\ ~Missing(key)
    /\ ~Missing(ha_rest_api_url)
    /\ pc = "terminated"
    /\ exit = [exc |-> "AssertionError", msg |-> "Stubbornly refusing to run tight loop"]

\* C3: with the API key or the base URL unset or empty the run never enters
\* the loop, whatever the other values are: no disk query and no POST
\* happen, and the assertion error names the missing value.
C3_MissingConfigRejected ==
    (Missing(key) \/ Missing(ha_rest_api_url)) =>
        /\ pc \in {"start", "terminated"}
        /\ trace = <<>>
        /\ request = <<>>
        /\ usage = NoUsage
        /\ (pc = "terminated" /\ ~Killed(exit)) =>
              exit = [exc |-> "AssertionError",
                      msg |-> IF Missing(key)
                              THEN "Need to specify HA_API_KEY in environment!"
                              ELSE "Please specify HA_REST_API_URL"]

\* C3 witness: the key is given, the URL is the empty string, the interval
\* is valid, and the run ended on line 28.
C3_Witness ==
    /\ ~Missing(key)
    /\ ha_rest_api_url = Some(<<>>)
    /\ interval > 0
    /\ pc = "terminated"
    /\ exit.msg = "Please specify HA_REST_API_URL"

\* C4: a failed disk query is the last event of the run: the process is
\* terminated with the OSError, nothing (no POST, no sleep, no query) comes
\* after it; and the process never ends with an exception of the report
\* step.
C4_DiskFailureIsFatal ==
    LET failed == trace # <<>> /\ Last(trace) = QueryEvent(FALSE)
    IN /\ failed => (pc = "terminated" /\ exit.exc \in DiskErrors)
       /\ exit.exc \in DiskErrors => failed
       /\ \A i \in 1 .. Len(trace) :
             (trace[i].ev = "query" /\ ~trace[i].ok) => i = Len(trace)
       /\ exit.exc \notin ReportExceptions

\* C4 witness: the disk query failed in an iteration that follows a
\* completed one.
C4_Witness ==
    /\ pc = "terminated"
    /\ exit.exc = "PermissionError"
    /\ trace = <<PostEvent(TRUE), SleepEvent(interval), QueryEvent(FALSE)>>

\* C5: the events come in the repeating order disk query, POST attempt,
\* sleep.  From the previous POST attempt on, the events are that attempt,
\* one sleep of the configured interval, one successful disk query and one
\* POST attempt, in this order and up to the thread's position; a POST is
\* never attempted twice without a sleep and a disk query in between.
C5_OnePostPerInterval ==
    LET P(i) == trace[i].ev = "post"
        S(i) == trace[i] = SleepEvent(interval)
        Q(i) == trace[i].ev = "query"
        t0 == trace = <<>>
        t1 == Len(trace) = 1 /\ Q(1)
        t2 == Len(trace) = 2 /\ Q(1) /\ trace[1].ok /\ P(2)
        u2 == Len(trace) = 2 /\ P(1) /\ S(2)
        u3 == Len(trace) = 3 /\ P(1) /\ S(2) /\ Q(3)
        u4 == Len(trace) = 4 /\ P(1) /\ S(2) /\ Q(3) /\ trace[3].ok /\ P(4)
    IN /\ pc = "start" => t0
       /\ pc = "query" => (t0 \/ u2)
       /\ pc \in {"compute", "post"} => ((t1 \/ u3) /\ Last(trace).ok)
       /\ pc = "sleep" => (t2 \/ u4)
       /\ pc = "terminated" => (t0 \/ t1 \/ t2 \/ u2 \/ u3 \/ u4)

\* C5 witness: two consecutive POST attempts, the first of which failed,
\* with one sleep and one disk query between them.
C5_Witness ==
    /\ pc = "sleep"
    /\ trace = <<PostEvent(FALSE), SleepEvent(interval), QueryEvent(TRUE), PostEvent(TRUE)>>

NearRat(x, n, d, k) ==
    LET a == IF x.e >= 0 THEN x.m * Pow2(x.e) * d ELSE x.m * d
        b == IF x.e >= 0 THEN n ELSE n * Pow2(0 - x.e)
        diff == IF a >= b THEN a - b ELSE b - a
    IN diff * Pow2(MantBits) <= k * b

F100 == RoundRat(100, 1)
Posted == request # <<>>

\* C7 (as stated): for total > 0 and used + free <= total the reported
\* used_percentage is used*100/total, free_percentage is free*100/total,
\* both lie in [0, 100], their sum equals 100*(used+free)/total, state is
\* used_percentage, and 1000/400/600 gives 40 and 60.
C7_Original ==
    Posted =>
        LET a == request[1].json.attributes
            up == a.used_percentage
            fp == a.free_percentage
        IN /\ up = TrueDiv(usage.used * 100, usage.total)
           /\ fp = TrueDiv(usage.free * 100, usage.total)
           /\ FLe(FZero, up) /\ FLe(up, F100)
           /\ FLe(FZero, fp) /\ FLe(fp, F100)
           /\ FAdd(up, fp) = TrueDiv(100 * (usage.used + usage.free), usage.total)
           /\ request[1].json.state = up
           /\ usage = Sample(1000, 400, 600) =>
                 (up = RoundRat(40, 1) /\ fp = RoundRat(60, 1))

\* C7 (amended): as above, except that the sum of the two percentages
\* equals 100*(used+free)/total only up to floating-point rounding (a
\* relative error of at most 3 units of roundoff); each percentage is the
\* float nearest to its quotient.
C7_Percentages ==
    Posted =>
        LET a == request[1].json.attributes
            up == a.used_percentage
            fp == a.free_percentage
        IN /\ usage.total > 0
           /\ a.total_bytes = usage.total
           /\ a.used_bytes = usage.used
           /\ a.free_bytes = usage.free
           /\ up = TrueDiv(usage.used * 100, usage.total)
           /\ fp = TrueDiv(usage.free * 100, usage.total)
           /\ NearRat(up, usage.used * 100, usage.total, 1)
           /\ NearRat(fp, usage.free * 100, usage.total, 1)
           /\ FLe(FZero, up) /\ FLe(up, F100)
           /\ FLe(FZero, fp) /\ FLe(fp, F100)
           /\ NearRat(FAdd(up, fp), 100 * (usage.used + usage.free), usage.total, 3)
           /\ request[1].json.state = up
           /\ usage = Sample(1000, 400, 600) =>
                 (up = RoundRat(40, 1) /\ fp = RoundRat(60, 1))

\* C7 witness: a report was sent for total = 6, used = 1, free = 4, where the
\* rounded sum differs from the rounded quotient.
C7_Witness ==
    /\ Posted
    /\ usage = Sample(6, 1, 4)
    /\ FAdd(request[1].json.attributes.used_percentage,
            request[1].json.attributes.free_percentage) # TrueDiv(500, 6)

\* C8: a disk query that returns total = 0 ends the run in that iteration
\* with the ZeroDivisionError: no POST is sent, nothing is logged, and the
\* successful query is the last event.
C8_ZeroTotalIsFatal ==
    usage.total = 0 =>
        /\ pc \in {"compute", "terminated"}
        /\ pc = "terminated" => exit.exc \in {"ZeroDivisionError", "KeyboardInterrupt"}
        /\ request = <<>>
        /\ log = <<>>
        /\ Last(trace) = QueryEvent(TRUE)

\* C8 witness: total = 0 in an iteration after a completed one; the run
\* ended with the ZeroDivisionError.
C8_Witness ==
    /\ usage.total = 0
    /\ exit.exc = "ZeroDivisionError"
    /\ Len(trace) = 3
    /\ trace[1].ev = "post"

Str_entity_nas1_data ==
    <<"s", "e", "n", "s", "o", "r", ".", "n", "a", "s", "1", "_", "d", "a", "t", "a",
      "_", "d", "i", "s", "k", "_", "u", "s", "a", "g", "e">>

\* C9 (as stated): the POST target is base URL, "/", "states", "/", entity
\* id, for every base URL, hostname and mount.
C9_Original ==
    Posted =>
        request[1].url =
            ha_rest_api_url.val \o <<"/">> \o Str_states \o <<"/">> \o
            Str_sensor_dot \o hostname \o <<"_">> \o mount \o Str_us_disk_usage

\* C9 (amended): the POST target is the base URL, a "/" unless the base URL
\* already ends with one, "states", "/", and the entity id, in which
\* hostname and mount appear unchanged, also when they contain "/".
C9_PostTarget ==
    Posted =>
        LET base == ha_rest_api_url.val
            sep == IF base[Len(base)] = "/" THEN <<>> ELSE <<"/">>
        IN /\ request[1].url =
                base \o sep \o Str_states \o <<"/">> \o
                Str_sensor_dot \o hostname \o <<"_">> \o mount \o Str_us_disk_usage
           /\ (hostname = Str_nas1 /\ mount = Str_data) =>
                 request[1].url =
                    base \o sep \o Str_states \o <<"/">> \o Str_entity_nas1_data

\* C9 witness: a POST was made with a base URL that ends with "/" and a
\* hostname and a mount that contain "/".
C9_Witness ==
    /\ Posted
    /\ ha_rest_api_url.val = Str_base_slash
    /\ hostname = Str_a_slash_b
    /\ mount = Str_slash_mnt

\* C10 (as stated): when the POST returns a response, a body that parses
\* as JSON is logged at debug level, and a body that does not parse is
\* ignored: it leaves no error record and the report does not count as
\* failed.  "Parses as JSON" is read here as the code's `if response.json()`
\* (a truthy value), the reading most favourable to the statement.
C10_Original ==
    (pc = "sleep" /\ outcome.kind = "response") =>
        /\ outcome.detail = "json_truthy" => Last(log) = Debug("Response JSON")
        /\ outcome.detail = "not_json" =>
              (~HasError(log) /\ Last(trace) = PostEvent(TRUE))

\* C10 (amended): when the POST returns a response, a body that parses to a
\* truthy JSON value is logged at debug level, a body that parses to a falsy
\* value is not logged, and a body that does not parse raises inside the
\* try: the exception is logged at error level and the loop goes on to the
\* sleep.
C10_ResponseHandling ==
    (pc = "sleep" /\ outcome.kind = "response") =>
        /\ Len(trace) \in {2, 4}
        /\ outcome.detail = "json_truthy" =>
              /\ log = <<Debug("Posting to"), Debug("Got response"), Debug("Response JSON")>>
              /\ Last(trace) = PostEvent(TRUE)
        /\ outcome.detail = "json_falsy" =>
              /\ log = <<Debug("Posting to"), Debug("Got response")>>
              /\ Last(trace) = PostEvent(TRUE)
        /\ outcome.detail = "not_json" =>
              /\ log = <<Debug("Posting to"), Debug("Got response"),
                         Error("Got exception", "JSONDecodeError")>>
              /\ Last(trace) = PostEvent(FALSE)

\* C10 witness: the response body was not JSON and the error was logged.
C10_Witness ==
    /\ pc = "sleep"
    /\ outcome = [kind |-> "response", detail |-> "not_json"]
    /\ HasError(log)

=============================================================================
